---- MODULE Spec2Model ----
(***************************************************************************)
(* Model of ntfs_pancake.go: main starts a pool of workers, a walker       *)
(* goroutine sends the path of every regular file over an unbuffered       *)
(* channel, each worker runs processFile on the paths it receives, and     *)
(* main prints the four global counters after wg.Wait().                   *)
(*                                                                         *)
(* A directory tree is the sequence of entries filepath.Walk would visit,  *)
(* in visit order; entry 1 is the root.  A path is the index of its entry. *)
(***************************************************************************)
EXTENDS Integers, Naturals, Sequences, FiniteSets, TLC

\* ---- bounds of the model ------------------------------------------------
MaxEntries == 3
MaxWorkers == 2
MaxSize == 10

\* ---- program constants ----------------------------------------------------
COMPRESSION_EFFICIENCY_THRESHOLD == 10
COMPRESSION_FORMAT_DEFAULT == 1
COMPRESSION_FORMAT_NONE == 0

VARIABLES
    argc,                    \* len(os.Args)
    tree,                    \* the directory tree under os.Args[1]
    workerCount,             \* size of the pool
    mainpc,                  \* position of main / scanAndCompressFolder
    started,                 \* workers started so far by the loop of line 195
    wg,                      \* counter of the sync.WaitGroup
    walkerpc,                \* position of the walker goroutine
    idx,                     \* entry filepath.Walk is visiting
    closed,                  \* the channel paths has been closed
    closeCount,              \* number of close(paths) executed
    pc,                      \* position of each worker
    path,                    \* processFile's argument, per worker
    spaceSaved,              \* processFile's local, per worker
    below,                   \* savingRatio < COMPRESSION_EFFICIENCY_THRESHOLD, per worker
    applyErr,                \* err returned by enable/disableCompression, per worker
    mu,                      \* holder of the mutex, 0 when unlocked
    frees,                   \* memStat.Frees as last read
    totalFilesProcessed,
    totalFilesCompressed,
    totalFilesDecompressed,
    totalSpaceSaved,
    received,                \* per path, how many times a worker received it from the channel
    ctl,                     \* per path, the setCompression calls made: <<format, ok>>
    dropped,                 \* per path, the stage at which processFile gave up on it
    summary,                 \* the summary main printed, <<>> before
    exitCode                 \* exit status of the process, -1 while it runs

stats == <<totalFilesProcessed, totalFilesCompressed, totalFilesDecompressed, totalSpaceSaved>>

inputs == <<argc, tree, workerCount>>

mainvars == <<mainpc, started, wg, summary, exitCode, exitCode>>

walkervars == <<walkerpc, idx, closed, closeCount>>

locals == <<path, spaceSaved, below, applyErr>>

logs == <<received, ctl, dropped>>

vars == <<inputs, mainvars, walkervars, pc, locals, mu, frees, stats, logs>>

Workers == 1..MaxWorkers

Paths == 1..MaxEntries

Pool == 1..workerCount

\* ---- inputs ---------------------------------------------------------------
\* memStat.Frees is a cumulative count kept by the runtime: its value at a
\* call of ReadMemStats is not determined by the program's input.
FreesLevels == {0, 100 * MaxSize}

NoFile == [sizeErr |-> FALSE, estErr |-> FALSE, orig |-> 0, comp |-> 0, applyErr |-> FALSE]

Entry(kind, err, f) ==
    [kind |-> kind, err |-> err, sizeErr |-> f.sizeErr, estErr |-> f.estErr,
     orig |-> f.orig, comp |-> f.comp, applyErr |-> f.applyErr]

\* what os.Stat, compressFileInMemory and setCompression do with a regular file
FileResults(pairs) ==
    { [NoFile EXCEPT !.sizeErr = TRUE], [NoFile EXCEPT !.estErr = TRUE] }
    \cup { [NoFile EXCEPT !.orig = p[1], !.comp = p[2], !.applyErr = a] :
             p \in pairs, a \in BOOLEAN }

Entries(results) ==
    { Entry(k, FALSE, NoFile) : k \in {"dir", "symlink", "special"} }
    \cup { Entry(k, TRUE, NoFile) : k \in {"dir", "file"} }
    \cup { Entry("file", FALSE, f) : f \in results }

\* An entry with err is one the callback is handed an error for: a directory
\* that cannot be listed, or a name whose Lstat fails (written as a file).
\* Only a readable directory has entries below it.
Trees(E) ==
    { t \in UNION { [1..n -> E] : n \in 1..MaxEntries } :
        Len(t) > 1 => (t[1].kind = "dir" /\ ~t[1].err) }

SizePairs == { <<100, 85>>, <<100, 95>> }

\* The regular files of Spec: every failure before the decision, both
\* decisions, and a controller call that fails (enableCompression and
\* disableCompression fail alike, in setCompression; SpecSizes and FairSpec
\* have the failing disableCompression).
SpecFiles ==
    { f \in FileResults(SizePairs) : f.applyErr => f.comp = 85 }

\* ---- pure functions -------------------------------------------------------
\* the comparison of line 154 the wrong way round
savingRatioAboveThreshold(saved, originalSize) ==
    IF originalSize = 0
    THEN saved > 0
    ELSE saved * 100 > COMPRESSION_EFFICIENCY_THRESHOLD * originalSize

\* the comparison of line 154 written with <= instead of <
savingRatioAtOrBelowThreshold(saved, originalSize) ==
    IF originalSize = 0
    THEN saved < 0
    ELSE saved * 100 <= COMPRESSION_EFFICIENCY_THRESHOLD * originalSize

\* line 148-149, 154: the outcome of  savingRatio < COMPRESSION_EFFICIENCY_THRESHOLD
\* where savingRatio = float64(spaceSaved) / float64(originalSize) * 100.
\* Dividing by 0.0 gives NaN for 0/0 (every comparison with NaN is false),
\* -Inf for a negative and +Inf for a positive numerator.
savingRatioBelowThreshold(saved, originalSize) ==
    IF originalSize = 0
    THEN saved < 0
    ELSE saved * 100 < COMPRESSION_EFFICIENCY_THRESHOLD * originalSize

RECURSIVE SumOver(_, _)
SumOver(S, f) ==
    IF S = {} THEN 0
    ELSE LET x == CHOOSE y \in S : TRUE IN f[x] + SumOver(S \ {x}, f)

\* ---- initial state --------------------------------------------------------
InitWith(T) ==
    /\ argc \in 1..3
    /\ tree \in T
    /\ workerCount \in 1..MaxWorkers
    /\ mainpc = "args"
    /\ started = 0
    /\ wg = 0
    /\ walkerpc = "idle"
    /\ idx = 1
    /\ closed = FALSE
    /\ closeCount = 0
    /\ pc = [w \in Workers |-> "idle"]
    /\ path = [w \in Workers |-> 0]
    /\ spaceSaved = [w \in Workers |-> 0]
    /\ below = [w \in Workers |-> FALSE]
    /\ applyErr = [w \in Workers |-> FALSE]
    /\ mu = 0
    /\ frees = 0
    /\ totalFilesProcessed = 0
    /\ totalFilesCompressed = 0
    /\ totalFilesDecompressed = 0
    /\ totalSpaceSaved = 0
    /\ received = [p \in Paths |-> 0]
    /\ ctl = [p \in Paths |-> <<>>]
    /\ dropped = [p \in Paths |-> "none"]
    /\ summary = <<>>
    /\ exitCode = -1

Init == InitWith(Trees(Entries(SpecFiles)))

\* ---- main -----------------------------------------------------------------
\* line 227-230: wrong number of arguments, print usage and return; a Go
\* program whose main returns exits with status 0
Usage ==
    /\ mainpc = "args"
    /\ argc # 2
    /\ mainpc' = "exited"
    /\ exitCode' = 0
    /\ UNCHANGED <<inputs, started, wg, summary, walkervars, pc, locals, mu, frees, stats, logs>>

\* line 232-233, 191-192: call scanAndCompressFolder
Scan ==
    /\ mainpc = "args"
    /\ argc = 2
    /\ mainpc' = "spawn"
    /\ UNCHANGED <<inputs, started, wg, summary, exitCode, walkervars, pc, locals, mu, frees, stats, logs>>

\* line 195-198: wg.Add(1); go worker(paths, &wg)
StartWorker ==
    /\ mainpc = "spawn"
    /\ started < workerCount
    /\ started' = started + 1
    /\ wg' = wg + 1
    /\ pc' = [pc EXCEPT ![started + 1] = "recv"]
    /\ UNCHANGED <<inputs, mainpc, summary, exitCode, walkervars, locals, mu, frees, stats, logs>>

\* line 201: go func() { ... }()
StartWalker ==
    /\ mainpc = "spawn"
    /\ started = workerCount
    /\ mainpc' = "wait"
    /\ walkerpc' = "walk"
    /\ UNCHANGED <<inputs, started, wg, summary, exitCode, idx, closed, closeCount, pc, locals, mu, frees, stats, logs>>

\* wg.Wait() that does not wait for the counter to reach zero
WaitNoJoin ==
    /\ mainpc = "wait"
    /\ mainpc' = "summary"
    /\ UNCHANGED <<inputs, started, wg, summary, exitCode, walkervars, pc, locals, mu, frees, stats, logs>>

\* line 223: wg.Wait() returns
Wait ==
    /\ mainpc = "wait"
    /\ wg = 0
    /\ mainpc' = "summary"
    /\ UNCHANGED <<inputs, started, wg, summary, exitCode, walkervars, pc, locals, mu, frees, stats, logs>>

\* line 236-241: print the summary and return from main
PrintSummary ==
    /\ mainpc = "summary"
    /\ summary' = stats
    /\ mainpc' = "done"
    /\ exitCode' = 0
    /\ UNCHANGED <<inputs, started, wg, walkervars, pc, locals, mu, frees, stats, logs>>

\* ---- walker ---------------------------------------------------------------
\* close(paths) placed after Walk's normal return instead of being deferred
WalkErrorNoClose ==
    /\ walkerpc = "walk"
    /\ idx <= Len(tree)
    /\ tree[idx].err
    /\ walkerpc' = "exited"
    /\ UNCHANGED <<inputs, mainvars, idx, closed, closeCount, pc, locals, mu, frees, stats, logs>>

\* line 204-207: the callback is handed an error, returns it, and Walk stops
WalkError ==
    /\ walkerpc = "walk"
    /\ idx <= Len(tree)
    /\ tree[idx].err
    /\ walkerpc' = "close"
    /\ UNCHANGED <<inputs, mainvars, idx, closed, closeCount, pc, locals, mu, frees, stats, logs>>

\* line 210, 214: not a regular file, nothing is sent
WalkSkip ==
    /\ walkerpc = "walk"
    /\ idx <= Len(tree)
    /\ ~tree[idx].err
    /\ tree[idx].kind # "file"
    /\ idx' = idx + 1
    /\ UNCHANGED <<inputs, mainvars, walkerpc, closed, closeCount, pc, locals, mu, frees, stats, logs>>

\* the test of line 210 without  info.Mode().IsRegular()
WalkFileNotDir ==
    /\ walkerpc = "walk"
    /\ idx <= Len(tree)
    /\ ~tree[idx].err
    /\ tree[idx].kind # "dir"
    /\ walkerpc' = "send"
    /\ UNCHANGED <<inputs, mainvars, idx, closed, closeCount, pc, locals, mu, frees, stats, logs>>

\* line 210-211: a regular file, the walker reaches  paths <- path
WalkFile ==
    /\ walkerpc = "walk"
    /\ idx <= Len(tree)
    /\ ~tree[idx].err
    /\ tree[idx].kind = "file"
    /\ walkerpc' = "send"
    /\ UNCHANGED <<inputs, mainvars, idx, closed, closeCount, pc, locals, mu, frees, stats, logs>>

\* a hand-off after which the walker offers the same path again
HandoffTwice(w) ==
    /\ walkerpc = "send"
    /\ pc[w] = "recv"
    /\ ~closed
    /\ received[idx] < 2
    /\ path' = [path EXCEPT ![w] = idx]
    /\ pc' = [pc EXCEPT ![w] = "getsize"]
    /\ received' = [received EXCEPT ![idx] = @ + 1]
    /\ walkerpc' = IF received[idx] = 0 THEN "send" ELSE "walk"
    /\ idx' = IF received[idx] = 0 THEN idx ELSE idx + 1
    /\ UNCHANGED <<inputs, mainvars, closed, closeCount, spaceSaved, below, applyErr, mu, frees, stats, ctl, dropped>>

\* a send that completes without a worker at its receive: the path is left
\* in a buffer and the walker goes on
HandoffBuffered(w) ==
    /\ walkerpc = "send"
    /\ ~closed
    /\ IF pc[w] = "recv"
       THEN /\ path' = [path EXCEPT ![w] = idx]
            /\ pc' = [pc EXCEPT ![w] = "getsize"]
            /\ received' = [received EXCEPT ![idx] = @ + 1]
       ELSE UNCHANGED <<path, pc, received>>
    /\ walkerpc' = "walk"
    /\ idx' = idx + 1
    /\ UNCHANGED <<inputs, mainvars, closed, closeCount, spaceSaved, below, applyErr, mu, frees, stats, ctl, dropped>>

\* line 211 and 185: the unbuffered channel hands the path to a receiving worker
Handoff(w) ==
    /\ walkerpc = "send"
    /\ pc[w] = "recv"
    /\ ~closed
    /\ path' = [path EXCEPT ![w] = idx]
    /\ pc' = [pc EXCEPT ![w] = "getsize"]
    /\ received' = [received EXCEPT ![idx] = @ + 1]
    /\ walkerpc' = "walk"
    /\ idx' = idx + 1
    /\ UNCHANGED <<inputs, mainvars, closed, closeCount, spaceSaved, below, applyErr, mu, frees, stats, ctl, dropped>>

\* line 215: Walk returns after the last entry
WalkEnd ==
    /\ walkerpc = "walk"
    /\ idx > Len(tree)
    /\ walkerpc' = "close"
    /\ UNCHANGED <<inputs, mainvars, idx, closed, closeCount, pc, locals, mu, frees, stats, logs>>

\* a walker that returns without closing the channel
ExitWithoutClose ==
    /\ walkerpc = "close"
    /\ walkerpc' = "exited"
    /\ UNCHANGED <<inputs, mainvars, idx, closed, closeCount, pc, locals, mu, frees, stats, logs>>

\* line 202: the deferred close(paths)
Close ==
    /\ walkerpc = "close"
    /\ closed' = TRUE
    /\ closeCount' = closeCount + 1
    /\ walkerpc' = "exited"
    /\ UNCHANGED <<inputs, mainvars, idx, pc, locals, mu, frees, stats, logs>>

\* ---- worker ---------------------------------------------------------------
\* line 184-185: range over a closed channel ends, the deferred wg.Done() runs
WorkerExit(w) ==
    /\ pc[w] = "recv"
    /\ closed
    /\ pc' = [pc EXCEPT ![w] = "exited"]
    /\ wg' = wg - 1
    /\ UNCHANGED <<inputs, mainpc, started, summary, exitCode, walkervars, locals, mu, frees, stats, logs>>

\* line 126-138: ReadMemStats, getFileSize and the two early returns
GetSize(w) ==
    /\ pc[w] = "getsize"
    /\ \E fr \in { f \in FreesLevels : f >= frees } :
         /\ frees' = fr
         /\ IF tree[path[w]].sizeErr
            THEN /\ dropped' = [dropped EXCEPT ![path[w]] = "size"]
                 /\ pc' = [pc EXCEPT ![w] = "recv"]
            ELSE IF tree[path[w]].orig > fr
            THEN /\ dropped' = [dropped EXCEPT ![path[w]] = "memory"]
                 /\ pc' = [pc EXCEPT ![w] = "recv"]
            ELSE /\ dropped' = dropped
                 /\ pc' = [pc EXCEPT ![w] = "compress"]
    /\ UNCHANGED <<inputs, mainvars, walkervars, locals, mu, stats, received, ctl>>

\* a failed estimation that is counted as a processed file before returning
CompressCountsFailure(w) ==
    /\ pc[w] = "compress"
    /\ LET e == tree[path[w]] IN
         IF e.estErr
         THEN /\ dropped' = [dropped EXCEPT ![path[w]] = "estimate"]
              /\ pc' = [pc EXCEPT ![w] = "recv"]
              /\ totalFilesProcessed' = totalFilesProcessed + 1
              /\ UNCHANGED <<spaceSaved, below>>
         ELSE /\ spaceSaved' = [spaceSaved EXCEPT ![w] = e.orig - e.comp]
              /\ below' = [below EXCEPT ![w] = savingRatioBelowThreshold(e.orig - e.comp, e.orig)]
              /\ pc' = [pc EXCEPT ![w] = "lock"]
              /\ UNCHANGED <<dropped, totalFilesProcessed>>
    /\ UNCHANGED <<inputs, mainvars, walkervars, path, applyErr, mu, frees, totalFilesCompressed,
                   totalFilesDecompressed, totalSpaceSaved, received, ctl>>

\* line 141-149: compressFileInMemory, its early return, spaceSaved and savingRatio
Compress(w) ==
    /\ pc[w] = "compress"
    /\ LET e == tree[path[w]] IN
         IF e.estErr
         THEN /\ dropped' = [dropped EXCEPT ![path[w]] = "estimate"]
              /\ pc' = [pc EXCEPT ![w] = "recv"]
              /\ UNCHANGED <<spaceSaved, below>>
         ELSE /\ spaceSaved' = [spaceSaved EXCEPT ![w] = e.orig - e.comp]
              /\ below' = [below EXCEPT ![w] = savingRatioBelowThreshold(e.orig - e.comp, e.orig)]
              /\ pc' = [pc EXCEPT ![w] = "lock"]
              /\ dropped' = dropped
    /\ UNCHANGED <<inputs, mainvars, walkervars, path, applyErr, mu, frees, stats, received, ctl>>

\* a Lock that does not wait for the mutex to be free
LockNoWait(w) ==
    /\ pc[w] = "lock"
    /\ mu' = w
    /\ pc' = [pc EXCEPT ![w] = "count"]
    /\ UNCHANGED <<inputs, mainvars, walkervars, locals, frees, stats, logs>>

\* line 151: mu.Lock()
Lock(w) ==
    /\ pc[w] = "lock"
    /\ mu = 0
    /\ mu' = w
    /\ pc' = [pc EXCEPT ![w] = "count"]
    /\ UNCHANGED <<inputs, mainvars, walkervars, locals, frees, stats, logs>>

\* line 152: totalFilesProcessed++
Count(w) ==
    /\ pc[w] = "count"
    /\ totalFilesProcessed' = totalFilesProcessed + 1
    /\ pc' = [pc EXCEPT ![w] = "apply"]
    /\ UNCHANGED <<inputs, mainvars, walkervars, locals, mu, frees, totalFilesCompressed,
                   totalFilesDecompressed, totalSpaceSaved, logs>>

\* line 154-157, 163-166: disableCompression or enableCompression is called
Apply(w) ==
    /\ pc[w] = "apply"
    /\ LET format == IF below[w] THEN COMPRESSION_FORMAT_NONE ELSE COMPRESSION_FORMAT_DEFAULT
           failed == tree[path[w]].applyErr
       IN  /\ ctl' = [ctl EXCEPT ![path[w]] = Append(@, <<format, ~failed>>)]
           /\ applyErr' = [applyErr EXCEPT ![w] = failed]
           /\ dropped' = IF failed THEN [dropped EXCEPT ![path[w]] = "apply"] ELSE dropped
    /\ pc' = [pc EXCEPT ![w] = "record"]
    /\ UNCHANGED <<inputs, mainvars, walkervars, path, spaceSaved, below, mu, frees, stats, received>>

\* the bytes are added on the Disable branch as well
RecordAddsOnDisable(w) ==
    /\ pc[w] = "record"
    /\ IF applyErr[w]
       THEN UNCHANGED <<totalFilesCompressed, totalFilesDecompressed, totalSpaceSaved>>
       ELSE IF below[w]
       THEN /\ totalFilesDecompressed' = totalFilesDecompressed + 1
            /\ totalSpaceSaved' = totalSpaceSaved + spaceSaved[w]
            /\ UNCHANGED totalFilesCompressed
       ELSE /\ totalFilesCompressed' = totalFilesCompressed + 1
            /\ totalSpaceSaved' = totalSpaceSaved + spaceSaved[w]
            /\ UNCHANGED totalFilesDecompressed
    /\ pc' = [pc EXCEPT ![w] = "unlock"]
    /\ UNCHANGED <<inputs, mainvars, walkervars, locals, mu, frees, totalFilesProcessed, logs>>

\* the error branch returns from processFile without mu.Unlock()
RecordReturnsOnError(w) ==
    /\ pc[w] = "record"
    /\ IF applyErr[w]
       THEN UNCHANGED <<totalFilesCompressed, totalFilesDecompressed, totalSpaceSaved>>
       ELSE IF below[w]
       THEN /\ totalFilesDecompressed' = totalFilesDecompressed + 1
            /\ UNCHANGED <<totalFilesCompressed, totalSpaceSaved>>
       ELSE /\ totalFilesCompressed' = totalFilesCompressed + 1
            /\ totalSpaceSaved' = totalSpaceSaved + spaceSaved[w]
            /\ UNCHANGED totalFilesDecompressed
    /\ pc' = [pc EXCEPT ![w] = IF applyErr[w] THEN "recv" ELSE "unlock"]
    /\ UNCHANGED <<inputs, mainvars, walkervars, locals, mu, frees, totalFilesProcessed, logs>>

\* line 157-161, 165-170: the counters of the branch taken
Record(w) ==
    /\ pc[w] = "record"
    /\ IF applyErr[w]
       THEN UNCHANGED <<totalFilesCompressed, totalFilesDecompressed, totalSpaceSaved>>
       ELSE IF below[w]
       THEN /\ totalFilesDecompressed' = totalFilesDecompressed + 1
            /\ UNCHANGED <<totalFilesCompressed, totalSpaceSaved>>
       ELSE /\ totalFilesCompressed' = totalFilesCompressed + 1
            /\ totalSpaceSaved' = totalSpaceSaved + spaceSaved[w]
            /\ UNCHANGED totalFilesDecompressed
    /\ pc' = [pc EXCEPT ![w] = "unlock"]
    /\ UNCHANGED <<inputs, mainvars, walkervars, locals, mu, frees, totalFilesProcessed, logs>>

\* processFile returns without mu.Unlock()
ReturnLocked(w) ==
    /\ pc[w] = "unlock"
    /\ pc' = [pc EXCEPT ![w] = "recv"]
    /\ UNCHANGED <<inputs, mainvars, walkervars, locals, mu, frees, stats, logs>>

\* line 172: mu.Unlock(), processFile returns to the loop of line 185
Unlock(w) ==
    /\ pc[w] = "unlock"
    /\ mu' = 0
    /\ pc' = [pc EXCEPT ![w] = "recv"]
    /\ UNCHANGED <<inputs, mainvars, walkervars, locals, frees, stats, logs>>

processFile(w) ==
    \/ GetSize(w)
    \/ Compress(w)
    \/ Lock(w)
    \/ Count(w)
    \/ Apply(w)
    \/ Record(w)
    \/ Unlock(w)

worker(w) ==
    \/ Handoff(w)
    \/ processFile(w)
    \/ WorkerExit(w)

walker ==
    \/ WalkError
    \/ WalkSkip
    \/ WalkFile
    \/ WalkEnd
    \/ Close

main ==
    \/ Usage
    \/ Scan
    \/ StartWorker
    \/ StartWalker
    \/ Wait
    \/ PrintSummary

Next ==
    \/ main
    \/ walker
    \/ \E w \in Workers : worker(w)

Spec == Init /\ [][Next]_vars

\* The Go scheduler lets every runnable goroutine run eventually.
Fairness ==
    /\ WF_vars(main)
    /\ WF_vars(walker)
    /\ WF_vars(\E w \in Workers : Handoff(w))
    /\ \A w \in Workers : WF_vars(processFile(w) \/ WorkerExit(w))

\* ---- specifications -------------------------------------------------------
\* The runs checked for progress: a root directory, unreadable or holding
\* different regular files (one that cannot be estimated, one the controller
\* refuses, one that is compressed) in every order, possibly followed by an
\* unreadable directory.
FairFiles ==
    { Entry("file", FALSE, [NoFile EXCEPT !.estErr = TRUE]),
      Entry("file", FALSE, [NoFile EXCEPT !.orig = 100, !.comp = 95, !.applyErr = TRUE]),
      Entry("file", FALSE, [NoFile EXCEPT !.orig = 100, !.comp = 85]) }

FairTrees ==
    { t \in Trees(FairFiles \cup {Entry("dir", FALSE, NoFile), Entry("dir", TRUE, NoFile)}) :
        /\ \A i \in 2..Len(t) : t[i].kind = "dir" => (t[i].err /\ i = Len(t))
        /\ \A i, j \in 2..Len(t) : i # j => t[i] # t[j]
        /\ t[1].kind = "dir" }

InitFair == InitWith(FairTrees)

FairSpec == InitFair /\ [][Next]_vars /\ Fairness

\* every size pair up to MaxSize, and the sizes of the documented examples
SizeGrid ==
    { <<o, c>> : o \in (0..MaxSize) \cup {100}, c \in (0..(MaxSize + 1)) \cup {85, 90, 95, 100} }

\* one regular file of each of these sizes, in a directory and before a
\* subdirectory that may be unreadable
SizeTrees ==
    { <<Entry("dir", FALSE, NoFile), Entry("file", FALSE, f), Entry("dir", e, NoFile)>> :
        f \in { g \in FileResults(SizeGrid) : ~g.sizeErr /\ ~g.estErr }, e \in BOOLEAN }

InitSizes == InitWith(SizeTrees)

SpecSizes == InitSizes /\ [][Next]_vars

\* ---- vocabulary of the properties -----------------------------------------
\* the walker has closed the queue and every worker of the pool has exited
Drained == closed /\ \A w \in Pool : pc[w] = "exited"

\* the entries filepath.Walk gets to: those before the first error
Reached == { p \in 1..Len(tree) : \A q \in 1..p : ~tree[q].err }

RegularFiles == { p \in Reached : tree[p].kind = "file" }

\* tasks whose processing failed or was skipped, at any stage
filesFailed == Cardinality({ p \in Paths : dropped[p] # "none" })

tasksReceived == SumOver(Paths, received)

EnabledOk == { p \in Paths : ctl[p] # <<>> /\ ctl[p][1] = <<COMPRESSION_FORMAT_DEFAULT, TRUE>> }

InRegion == {"count", "apply", "record", "unlock"}

\* ---- C1 -------------------------------------------------------------------
\* C1: once the walker has closed the queue and all workers have exited,
\* filesProcessed = filesCompressed + filesDecompressed + filesFailed, where
\* filesFailed counts the tasks that failed or were skipped at any stage.
C1_ProcessedIsSumOfOutcomes ==
    Drained => totalFilesProcessed = totalFilesCompressed + totalFilesDecompressed + filesFailed

\* ---- C2 -------------------------------------------------------------------
\* C2: after the pool drains, totalSpaceSaved is the sum of
\* originalSize - compressedSize over exactly the files for which
\* enableCompression was called and succeeded; every other file adds nothing.
C2_BytesSavedIsSumOverEnabled ==
    Drained => totalSpaceSaved = SumOver(EnabledOk, [p \in Paths |-> tree[p].orig - tree[p].comp])

C2_Witness ==
    /\ Drained
    /\ EnabledOk # {}
    /\ totalSpaceSaved > 0
    /\ \E p \in Paths : ctl[p] # <<>> /\ p \notin EnabledOk

\* ---- C3 -------------------------------------------------------------------
\* C3: every task a worker pulled is counted in totalFilesProcessed exactly
\* once, whatever the stage at which it failed: after the pool drains
\* totalFilesProcessed equals the number of tasks the walker handed out.
C3_EveryTaskCounted ==
    Drained => totalFilesProcessed = tasksReceived

\* ---- C4 -------------------------------------------------------------------
\* C4: a worker that hits an estimation or apply failure releases the mutex
\* and is back at the receive of its loop, and every path the walker offers
\* is taken by some worker.
C4_FailureDoesNotHalt ==
    /\ \A w \in Workers :
         ((pc[w] = "compress" /\ tree[path[w]].estErr) \/ (pc[w] = "record" /\ applyErr[w]))
            ~> (pc[w] \in {"recv", "exited"} /\ mu # w)
    /\ \A p \in Paths : (walkerpc = "send" /\ idx = p) ~> (received[p] = 1)

\* the only worker of the pool took a later task after one of its tasks had failed
C4_Witness ==
    \E p, q \in Paths :
        /\ p < q
        /\ workerCount = 1
        /\ dropped[p] \in {"estimate", "apply"}
        /\ received[q] = 1

\* ---- C5 -------------------------------------------------------------------
\* C5: under fair scheduling a run that enters scanAndCompressFolder ends:
\* the queue is closed, every worker has exited, wg.Wait() has returned and
\* the summary is printed.
C5_Terminates ==
    (mainpc = "spawn") ~> (mainpc = "done" /\ summary # <<>> /\ Drained /\ walkerpc = "exited" /\ wg = 0)

C5_Witness ==
    /\ mainpc = "done"
    /\ summary # <<>>
    /\ Drained
    /\ Cardinality(RegularFiles) >= 2

\* ---- C6 -------------------------------------------------------------------
\* C6: a path is received at most once, no two workers process the same
\* path, and once the pool has exited every regular file the walk reached
\* has been received exactly once.
C6_ConsumedExactlyOnce ==
    /\ \A p \in Paths : received[p] <= 1
    /\ \A v, w \in Workers :
         (v # w /\ pc[v] \notin {"idle", "recv", "exited"} /\ pc[w] \notin {"idle", "recv", "exited"})
            => path[v] # path[w]
    /\ \A p \in Paths : received[p] > 0 => p \in RegularFiles
    /\ Drained => \A p \in RegularFiles : received[p] = 1

\* two workers are processing two different paths
C6_Witness ==
    \E v, w \in Workers :
        /\ v # w
        /\ pc[v] = "compress"
        /\ pc[w] = "compress"
        /\ path[v] # path[w]
        /\ received[path[v]] = 1
        /\ received[path[w]] = 1

\* ---- C7 -------------------------------------------------------------------
\* C7: at most one worker is between mu.Lock() and mu.Unlock(), and it is the
\* holder of the mutex; a step changes a counter only if a worker holds the
\* mutex before and after it; and whenever the mutex is free the counters
\* show no partial update.
MutexInv ==
    /\ Cardinality({ w \in Workers : pc[w] \in InRegion }) <= 1
    /\ \A w \in Workers : pc[w] \in InRegion <=> mu = w
    /\ mu = 0 =>
         /\ totalFilesProcessed = Cardinality({ p \in Paths : ctl[p] # <<>> })
         /\ totalFilesProcessed = totalFilesCompressed + totalFilesDecompressed
                + Cardinality({ p \in Paths : dropped[p] = "apply" })

C7_StatsUnderOneMutex ==
    [][ /\ MutexInv
        /\ MutexInv'
        /\ stats' # stats => \E w \in Workers : mu = w /\ mu' = w /\ pc[w] \in InRegion
      ]_vars

\* one worker is inside the region while another waits at mu.Lock()
C7_Witness ==
    \E v, w \in Workers : pc[v] = "record" /\ pc[w] = "lock" /\ totalFilesProcessed = 1

\* ---- C8 -------------------------------------------------------------------
\* C8: main reads the counters only when every worker has exited, and no
\* counter changes once wg.Wait() has returned.
SummaryRead == mainpc \in {"summary", "done"}

C8_SummaryAfterJoin ==
    [][ /\ SummaryRead => ((\A w \in Pool : pc[w] = "exited") /\ stats' = stats)
        /\ SummaryRead' => (\A w \in Pool : pc'[w] = "exited")
        /\ mainpc' = "done" => summary' = stats'
      ]_vars

C8_Witness ==
    /\ mainpc = "done"
    /\ summary = stats
    /\ totalFilesProcessed >= 2

\* ---- C9 -------------------------------------------------------------------
\* what the tree, the per-file estimation results and the controller outcomes
\* determine: every regular file that can be sized and estimated is processed
Estimated == { p \in RegularFiles : ~tree[p].sizeErr /\ ~tree[p].estErr }

Decided(p) == IF savingRatioBelowThreshold(tree[p].orig - tree[p].comp, tree[p].orig) THEN "Disable" ELSE "Enable"

ExpectedStats ==
    LET ok == { p \in Estimated : ~tree[p].applyErr }
        en == { p \in ok : Decided(p) = "Enable" }
    IN  << Cardinality(Estimated),
           Cardinality(en),
           Cardinality(ok \ en),
           SumOver(en, [p \in Paths |-> tree[p].orig - tree[p].comp]) >>

\* C9: the final statistics are a function of the directory tree, the
\* per-file estimation results and the controller outcomes alone, so runs
\* with any pool size and any interleaving print the same summary.
C9_StatsIndependentOfSchedule ==
    mainpc = "done" => summary = ExpectedStats

\* ---- C10 ------------------------------------------------------------------
\* C10: for originalSize > 0 the controller is asked exactly once, to
\* disable compression when the saving is below 10% of the original size and
\* to enable it otherwise (exactly 10% enables); (100, 85) enables,
\* (100, 95) and (100, 100) disable.
Asked(p) == ctl[p][1][1]

C10_DecisionByThreshold ==
    \A p \in Paths :
        (ctl[p] # <<>> /\ tree[p].orig > 0) =>
            /\ Len(ctl[p]) = 1
            /\ Asked(p) = COMPRESSION_FORMAT_NONE <=> 10 * (tree[p].orig - tree[p].comp) < tree[p].orig
            /\ Asked(p) = COMPRESSION_FORMAT_DEFAULT <=> 10 * (tree[p].orig - tree[p].comp) >= tree[p].orig
            /\ (tree[p].orig = 100 /\ tree[p].comp = 85) => Asked(p) = COMPRESSION_FORMAT_DEFAULT
            /\ (tree[p].orig = 100 /\ tree[p].comp \in {95, 100}) => Asked(p) = COMPRESSION_FORMAT_NONE

\* the controller has been asked about a file whose saving is exactly 10%
C10_Witness ==
    \E p \in Paths :
        /\ ctl[p] # <<>>
        /\ tree[p].orig > 0
        /\ tree[p].orig <= MaxSize
        /\ 10 * (tree[p].orig - tree[p].comp) = tree[p].orig
        /\ Asked(p) = COMPRESSION_FORMAT_DEFAULT

C12_ClosedExactlyOnce ==
    /\ [](/\ closeCount <= 1
          /\ closed <=> closeCount = 1
          /\ closed <=> walkerpc = "exited")
    /\ [][closed => (received' = received /\ closed')]_vars
    /\ (walkerpc = "walk") ~> closed
    /\ \A w \in Workers : (pc[w] = "recv" /\ closed) ~> (pc[w] = "exited")

\* the queue was closed after a walk that stopped on an error below the root
C12_Witness ==
    /\ closed
    /\ closeCount = 1
    /\ idx > 1
    /\ idx <= Len(tree)
    /\ tree[idx].err
    /\ \A w \in Pool : pc[w] = "exited"

\* ---- C13 ------------------------------------------------------------------
\* An entry with err has no entries of its own in the tree (nothing below it
\* can be listed), so every later entry lies outside the failing subtree.
OutsideFailingSubtrees == { p \in 1..Len(tree) : ~tree[p].err }

\* C13: when the root is readable, an error at an entry below it skips only
\* that entry: once the pool has drained every regular file outside the
\* failing subtree has been handed to a worker.
C13_SiblingsStillWalked ==
    (Drained /\ ~tree[1].err) =>
        \A p \in OutsideFailingSubtrees : tree[p].kind = "file" => received[p] = 1

\* ---- C14 ------------------------------------------------------------------
\* C14: after a walk without errors every regular file has been sent exactly
\* once and no directory, symbolic link or special file has been sent; at
\* no time has anything but a regular file been sent.
C14_OneTaskPerRegularFile ==
    /\ \A p \in Paths : received[p] > 0 => (p <= Len(tree) /\ tree[p].kind = "file")
    /\ (walkerpc = "exited" /\ \A q \in 1..Len(tree) : ~tree[q].err) =>
          \A p \in 1..Len(tree) : received[p] = IF tree[p].kind = "file" THEN 1 ELSE 0

\* a finished walk of a directory holding a regular file and a symbolic link
\* or special file
C14_Witness ==
    /\ walkerpc = "exited"
    /\ \A q \in 1..Len(tree) : ~tree[q].err
    /\ \E p, q \in 1..Len(tree) :
         /\ tree[p].kind = "file"
         /\ received[p] = 1
         /\ tree[q].kind \in {"symlink", "special"}
         /\ received[q] = 0

\* ---- C15 ------------------------------------------------------------------
\* C15 as stated: the walker never waits for a worker, its send can complete
\* in every state in which it has a path to send.
C15_SendNeverWaits ==
    walkerpc = "send" => \E w \in Pool : ENABLED Handoff(w)

\* C15 as amended: paths is an unbuffered channel.  The walker leaves its
\* send only in a step in which a worker that was at its receive takes that
\* very path, so no path is ever in flight between them and the walker
\* waits for as long as no worker is at its receive.
C15_SendIsHandoff ==
    [][ /\ (walkerpc = "send" /\ walkerpc' # "send") =>
              \E w \in Pool :
                  /\ pc[w] = "recv"
                  /\ pc'[w] = "getsize"
                  /\ path'[w] = idx
                  /\ received'[idx] = 1
                  /\ idx' = idx + 1
        /\ (walkerpc = "send" /\ \A w \in Pool : pc[w] # "recv") => walkerpc' = "send"
        /\ SumOver(Paths, received) = Cardinality({ p \in 1..Len(tree) : p < idx /\ tree[p].kind = "file" })
      ]_vars

\* the walker has a path to send while every worker is busy with another file
C15_Witness ==
    /\ walkerpc = "send"
    /\ received[idx] = 0
    /\ \A w \in Pool : pc[w] \in {"getsize", "compress", "lock"} \cup InRegion

\* ---- C16 ------------------------------------------------------------------
\* C16: when the callback is handed an error for the root itself, no worker
\* is ever started and no summary is printed; every other run that has
\* ended has printed the summary.
C16_InvalidRootAborts ==
    /\ (argc = 2 /\ tree[1].err) =>
          /\ started = 0
          /\ \A w \in Workers : pc[w] = "idle"
          /\ mainpc # "done"
          /\ summary = <<>>
    /\ (argc = 2 /\ ~tree[1].err /\ exitCode # -1) => summary # <<>>

\* ---- C17 ------------------------------------------------------------------
\* C17: with a missing or an extra argument the process ends with a
\* non-zero exit status, having started neither the walker nor a worker and
\* touched no file; with one argument it ends with exit status 0.
C17_UsageExitsNonZero ==
    /\ (argc # 2 /\ mainpc = "exited") =>
          /\ exitCode # 0
          /\ started = 0
          /\ walkerpc = "idle"
          /\ \A p \in Paths : received[p] = 0 /\ ctl[p] = <<>>
    /\ argc # 2 => mainpc \in {"args", "exited"}
    /\ (argc = 2 /\ mainpc = "done") => exitCode = 0

\* ---- C18 ------------------------------------------------------------------
DroppedEarly == {"size", "memory", "estimate"}

\* C18: a step in which processFile gives up on a task before the decision
\* (getFileSize error, file larger than memStat.Frees, estimation error)
\* changes no counter, does not touch the mutex and calls no controller; the
\* controller is never called for such a path, and no worker is at or past
\* mu.Lock() with it.
C18_EarlyFailureTouchesNothing ==
    [][ /\ \A w \in Workers :
              (pc[w] \in {"getsize", "compress"} /\ pc'[w] = "recv") =>
                  /\ dropped'[path[w]] \in DroppedEarly
                  /\ stats' = stats
                  /\ mu' = mu
                  /\ ctl' = ctl
        /\ \A p \in Paths : dropped[p] \in DroppedEarly => (ctl[p] = <<>> /\ ctl'[p] = <<>>)
        /\ \A w \in Workers :
              pc[w] \in {"lock"} \cup InRegion => dropped[path[w]] \notin DroppedEarly
        /\ mu = 0 => totalFilesProcessed =
              Cardinality({ p \in Paths : received[p] = 1 /\ dropped[p] \notin DroppedEarly
                                           /\ \A w \in Workers : path[w] = p => pc[w] \in {"recv", "exited"} })
      ]_vars

\* the pool has drained after one task was given up early and another was decided
C18_Witness ==
    /\ Drained
    /\ \E p, q \in Paths :
         /\ dropped[p] \in DroppedEarly
         /\ ctl[p] = <<>>
         /\ ctl[q] # <<>>
    /\ totalFilesProcessed = 1

\* ---- C19 ------------------------------------------------------------------
\* a worker at "apply" has taken the branch of line 154 and is in its call of
\* disableCompression or enableCompression
InApply(w) == pc[w] = "apply"

\* C19: at most one worker is in a controller call, and it holds the mutex;
\* every controller call is logged by the holder of the mutex; and after the
\* call, failed or not, the worker unlocks: a worker back at its receive (or
\* exited) does not hold the mutex, and the step that leaves "unlock" frees it.
C19_ApplySerialised ==
    [][ /\ Cardinality({ w \in Workers : InApply(w) }) <= 1
        /\ \A w \in Workers : InApply(w) => mu = w
        /\ ctl' # ctl => \E w \in Workers : InApply(w) /\ mu = w /\ mu' = w /\ pc'[w] = "record"
        /\ \A w \in Workers :
              /\ pc[w] = "record" => pc'[w] \in {"record", "unlock"}
              /\ (pc[w] = "unlock" /\ pc'[w] # "unlock") => (pc'[w] = "recv" /\ mu' = 0)
              /\ pc[w] \in {"idle", "recv", "exited"} => mu # w
      ]_vars

\* a worker is in a controller call after an earlier call failed and the
\* mutex was released
C19_Witness ==
    \E w \in Workers, p \in Paths :
        /\ InApply(w)
        /\ mu = w
        /\ path[w] # p
        /\ dropped[p] = "apply"
        /\ ctl[p] # <<>>

\* ---- C20 ------------------------------------------------------------------
\* C20: totalSpaceSaved is never negative and no step lowers it, whatever
\* the sizes (originalSize = 0 and compressedSize > originalSize included);
\* and whenever the mutex is free, totalFilesCompressed +
\* totalFilesDecompressed does not exceed totalFilesProcessed.
C20_BytesSavedMonotone ==
    [][ /\ totalSpaceSaved >= 0
        /\ totalSpaceSaved' >= totalSpaceSaved
        /\ mu = 0 => totalFilesCompressed + totalFilesDecompressed <= totalFilesProcessed
        /\ mu' = 0 => totalFilesCompressed' + totalFilesDecompressed' <= totalFilesProcessed'
      ]_vars

\* a file estimated larger than it is has been decided and recorded
C20_Witness ==
    /\ mu = 0
    /\ totalSpaceSaved = 0
    /\ totalFilesDecompressed = 1
    /\ \E p \in Paths :
         /\ tree[p].comp > tree[p].orig
         /\ ctl[p] = << <<COMPRESSION_FORMAT_NONE, TRUE>> >>

TypeOK ==
    /\ mu \in 0..MaxWorkers
    /\ wg \in 0..MaxWorkers
    /\ idx \in 1..(MaxEntries + 1)
    /\ totalFilesProcessed \in 0..MaxEntries
====
